---- MODULE Spec2Model ----
(***************************************************************************)
(* Model of the extract / clean / consolidate / summarise pipeline of      *)
(* src/src/utils.py, src/src/extractor.py and src/src/transformer.py.      *)
(*                                                                         *)
(* A DataFrame is a record [cols, rows]: cols is the sequence of column    *)
(* names, rows the sequence of rows, each row a function from the column   *)
(* names to cell values.  Decimal numbers are integers counting units of   *)
(* 0.0001 (1.5 is 15000); a numeric cell that is missing holds NaN and a   *)
(* text cell that is missing holds None.  Calendar days are day numbers    *)
(* counted from 2024-01-01, and strftime turns them into 'YYYY-MM-DD'      *)
(* strings.                                                                *)
(***************************************************************************)
EXTENDS Integers, Sequences, FiniteSets, TLC

VARIABLES
    pc,              \* where the caller stands: the next call, "done" or "failed"
    hoy,             \* the wall clock: the current day number
    dias_historico,  \* the dias_historico argument of the run
    moneda_local,    \* the moneda_local argument of the transformation
    datos,           \* the three source tables (Nulo until extracted)
    peticion,        \* the last hacer_request_api call: response, GETs issued, outcome
    n_get,           \* HTTP GETs issued so far
    df_consolidado,  \* what consolidar_datos returned (Nulo before)
    resumen,         \* what generar_resumen_estadistico returned (Nulo before)
    error,           \* the exception that reached the caller ("" when none)
    retorno,         \* what the run returned to its caller (Nulo when nothing)
    traza,           \* the stages entered so far, in order
    df,              \* the table a direct call of a table function works on
    llamada,         \* the last direct call: function, argument, result
    ticks,           \* midnights passed since the run began
    staging,         \* the rows of the table staging_consolidado
    cargas           \* the runs of tarea_cargar_staging: position, table, error

vars == <<pc, hoy, dias_historico, moneda_local, datos, peticion, n_get,
          df_consolidado, resumen, error, retorno, traza, df, llamada, ticks,
          staging, cargas>>

(***************************************************************************)
(* Bounds of the model.                                                    *)
(***************************************************************************)
MaxDias == 2         \* dias_historico ranges over 0..MaxDias
MaxTicks == 1        \* midnights that may pass during one run
MaxFilas == 2        \* rows of a table handed to a table function directly
MaxEntidades == 11   \* entities of the largest supplemental snapshot

(***************************************************************************)
(* Values.                                                                 *)
(***************************************************************************)
Nulo == [nulo |-> TRUE]

NaN == -1
None == "None"

Range(s) == {s[i] : i \in DOMAIN s}

RECURSIVE Concat(_)
Concat(ss) == IF ss = <<>> THEN <<>> ELSE Head(ss) \o Concat(Tail(ss))

\* select_dtypes(include=['float64', 'int64']): the columns holding numbers.
ColumnasNumericas == {"precio_usd", "tipo_cambio", "volumen", "precio_local"}

\* pandas isna on one cell of column c.
isna(c, v) == IF c \in ColumnasNumericas THEN v = NaN ELSE v = None

\* The missing value a join leaves in column c.
Faltante(c) == IF c \in ColumnasNumericas THEN NaN ELSE None

\* a / b rounded to the nearest integer, ties to even (a >= 0, b > 0).
RoundDiv(a, b) ==
    LET q == a \div b
        r == a % b
    IN  IF 2 * r < b THEN q
        ELSE IF 2 * r > b THEN q + 1
        ELSE IF q % 2 = 0 THEN q ELSE q + 1

(***************************************************************************)
(* The calendar: datetime.now() - timedelta(days=i) and strftime.          *)
(***************************************************************************)
EsBisiesto(y) == y % 4 = 0 /\ (y % 100 # 0 \/ y % 400 = 0)

DiasDelMes(y, m) ==
    IF m = 2 THEN (IF EsBisiesto(y) THEN 29 ELSE 28)
    ELSE IF m \in {4, 6, 9, 11} THEN 30 ELSE 31

DiasDelAnio(y) == IF EsBisiesto(y) THEN 366 ELSE 365

RECURSIVE FechaDe(_, _, _)
\* The civil date y-m-d that lies d days after the first of month m of year y.
FechaDe(y, m, d) ==
    IF d >= DiasDelAnio(y) /\ m = 1 THEN FechaDe(y + 1, 1, d - DiasDelAnio(y))
    ELSE IF d >= DiasDelMes(y, m) THEN FechaDe(y, m + 1, d - DiasDelMes(y, m))
    ELSE <<y, m, d + 1>>

Pad2(n) == IF n < 10 THEN "0" \o ToString(n) ELSE ToString(n)

\* strftime('%Y-%m-%d') of day number d (day 0 is 2024-01-01).
strftime(d) ==
    LET f == FechaDe(2024, 1, d)
    IN  ToString(f[1]) \o "-" \o Pad2(f[2]) \o "-" \o Pad2(f[3])

\* strftime('%Y-%m-%d %H:%M:%S'): the time of day is not modelled.
strftime_ts(d) == strftime(d) \o " 00:00:00"

(***************************************************************************)
(* src/src/utils.py: validar_dataframe_basico.                             *)
(***************************************************************************)
\* validar_dataframe_basico that accepts an empty table.
validar_sin_filas(t) == t # Nulo

\* validar_dataframe_basico that also rejects a table of one row (<= 1).
validar_mas_de_una(t) == ~(t = Nulo \/ Len(t.rows) <= 1)

\* TRUE when the validation passes; the call raises ValueError otherwise.
validar_dataframe_basico(t) == ~(t = Nulo \/ Len(t.rows) = 0)

(***************************************************************************)
(* src/src/transformer.py: limpiar_dataframe.                              *)
(***************************************************************************)
\* drop_duplicates that removes nothing.
drop_duplicates_nada(t) == t

\* df.drop_duplicates(): of the rows equal in every column (missing values
\* compare equal) the first one is kept.
drop_duplicates(t) ==
    LET Idx == {i \in DOMAIN t.rows : \A j \in 1..(i - 1) : t.rows[j] # t.rows[i]}
        F[i \in 0..Len(t.rows)] ==
            IF i = 0 THEN <<>>
            ELSE IF i \in Idx THEN Append(F[i - 1], t.rows[i]) ELSE F[i - 1]
    IN  [t EXCEPT !.rows = F[Len(t.rows)]]

\* df.dropna(how='all'): the rows whose every cell is missing are dropped.
dropna_all(t) ==
    [t EXCEPT !.rows =
        SelectSeq(t.rows, LAMBDA r : \E c \in Range(t.cols) : ~isna(c, r[c]))]

\* fillna(0) on the numeric columns, fillna('N/A') on the object columns.
fillna(t) ==
    [t EXCEPT !.rows =
        [i \in DOMAIN t.rows |->
            [c \in Range(t.cols) |->
                IF isna(c, t.rows[i][c])
                THEN (IF c \in ColumnasNumericas THEN 0 ELSE "N/A")
                ELSE t.rows[i][c]]]]

\* limpiar_dataframe that fills the missing values first.
limpiar_llena_primero(t) == dropna_all(drop_duplicates(fillna(t)))

limpiar_dataframe(t) == fillna(dropna_all(drop_duplicates(t)))

(***************************************************************************)
(* src/src/transformer.py: calcular_precio_local.                          *)
(***************************************************************************)
\* precio_local with the product cut to whole cents instead of rounded.
precio_local_truncado(precio, tipo) ==
    IF precio = NaN \/ tipo = NaN THEN NaN
    ELSE ((precio * tipo) \div 1000000) * 100

\* (precio * tipo_cambio).round(2): both factors count units of 0.0001, so
\* the product counts units of 0.00000001; the result is a whole number of
\* cents, again in units of 0.0001.  A missing factor gives a missing product.
precio_local(precio, tipo) ==
    IF precio = NaN \/ tipo = NaN THEN NaN
    ELSE RoundDiv(precio * tipo, 1000000) * 100

\* Column c appended to cols unless it is there already (df[c] = ...).
ConColumna(cols, c) == IF c \in Range(cols) THEN cols ELSE Append(cols, c)

\* Row r with column c set to v.
ConCelda(r, c, v) == [k \in DOMAIN r \cup {c} |-> IF k = c THEN v ELSE r[k]]

\* calcular_precio_local that sets moneda_local before it looks for the
\* two columns.
calcular_con_moneda(t, moneda) ==
    LET m == [cols |-> ConColumna(t.cols, "moneda_local"),
              rows |-> [i \in DOMAIN t.rows |-> ConCelda(t.rows[i], "moneda_local", moneda)]]
    IN  IF "precio_usd" \notin Range(t.cols) \/ "tipo_cambio" \notin Range(t.cols) THEN m
        ELSE [cols |-> ConColumna(m.cols, "precio_local"),
              rows |-> [i \in DOMAIN m.rows |->
                          ConCelda(m.rows[i], "precio_local",
                                   precio_local(m.rows[i]["precio_usd"],
                                                m.rows[i]["tipo_cambio"]))]]

calcular_precio_local(t, moneda) ==
    IF "precio_usd" \notin Range(t.cols) THEN t
    ELSE IF "tipo_cambio" \notin Range(t.cols) THEN t
    ELSE [cols |-> ConColumna(ConColumna(t.cols, "precio_local"), "moneda_local"),
          rows |-> [i \in DOMAIN t.rows |->
                      ConCelda(ConCelda(t.rows[i], "precio_local",
                                        precio_local(t.rows[i]["precio_usd"],
                                                     t.rows[i]["tipo_cambio"])),
                               "moneda_local", moneda)]]

(***************************************************************************)
(* pandas.merge(left, right, on=clave, how='left', suffixes=(si, sd)).     *)
(***************************************************************************)
\* The name a left (right) column carries in the result: a non-key column
\* found on both sides takes its side's suffix.
NombreIzq(c, left, right, clave, si) ==
    IF c # clave /\ c \in Range(right.cols) THEN c \o si ELSE c

NombreDer(c, left, right, clave, sd) ==
    IF c \in Range(left.cols) THEN c \o sd ELSE c

merge_left(left, right, clave, si, sd) ==
    LET otras == SelectSeq(right.cols, LAMBDA c : c # clave)
        cols  == [i \in DOMAIN left.cols |->
                     NombreIzq(left.cols[i], left, right, clave, si)]
                 \o [i \in DOMAIN otras |->
                     NombreDer(otras[i], left, right, clave, sd)]
        \* left row l joined with right row r (Nulo: no match, cells missing)
        Fila(l, r) ==
            [k \in Range(cols) |->
                IF \E c \in Range(left.cols) :
                       NombreIzq(c, left, right, clave, si) = k
                THEN l[CHOOSE c \in Range(left.cols) :
                           NombreIzq(c, left, right, clave, si) = k]
                ELSE LET c == CHOOSE c \in Range(otras) :
                                  NombreDer(c, left, right, clave, sd) = k
                     IN  IF r = Nulo THEN Faltante(c) ELSE r[c]]
        Filas(l) ==
            LET m == SelectSeq(right.rows, LAMBDA r : r[clave] = l[clave])
            IN  IF m = <<>> THEN <<Fila(l, Nulo)>>
                ELSE [j \in DOMAIN m |-> Fila(l, m[j])]
    IN  [cols |-> cols,
         rows |-> Concat([i \in DOMAIN left.rows |-> Filas(left.rows[i])])]


(***************************************************************************)
(* src/src/transformer.py: consolidar_datos.                               *)
(***************************************************************************)
\* The table with every row's column c set to v (df[c] = v).
ConColumnaFija(t, c, v) ==
    [cols |-> ConColumna(t.cols, c),
     rows |-> [i \in DOMAIN t.rows |-> ConCelda(t.rows[i], c, v)]]

\* df[cols]: the columns of the table in the order cols.
Proyectar(t, cols) ==
    [cols |-> cols,
     rows |-> [i \in DOMAIN t.rows |-> [c \in Range(cols) |-> t.rows[i][c]]]]

\* tipo_cambio_local that takes the rates of every currency.
tipo_cambio_sin_filtro(tipos, moneda, dia) ==
    IF Len(tipos.rows) = 0
    THEN [cols |-> <<"fecha", "moneda_origen", "moneda_destino", "tipo_cambio">>,
          rows |-> <<[fecha |-> strftime(dia), moneda_origen |-> "USD",
                      moneda_destino |-> moneda, tipo_cambio |-> 10000]>>]
    ELSE tipos

\* Paso 2: the rates of moneda, or the default row dated today.
tipo_cambio_local(tipos, moneda, dia) ==
    LET filtrado == [tipos EXCEPT !.rows =
                        SelectSeq(tipos.rows, LAMBDA r : r["moneda_destino"] = moneda)]
    IN  IF Len(filtrado.rows) = 0
        THEN [cols |-> <<"fecha", "moneda_origen", "moneda_destino", "tipo_cambio">>,
              rows |-> <<[fecha |-> strftime(dia), moneda_origen |-> "USD",
                          moneda_destino |-> moneda, tipo_cambio |-> 10000]>>]
        ELSE filtrado

\* Paso 4: productos left-joined with the (fecha, tipo_cambio) of the rates.
merge_tipo_cambio(productos, tc_local) ==
    merge_left(productos, Proyectar(tc_local, <<"fecha", "tipo_cambio">>),
               "fecha", "_x", "_y")

\* merge_adicionales with the two suffixes the wrong way round.
merge_adicionales_sufijo_izq(consolidado, adicionales) ==
    merge_left(consolidado, adicionales, "producto_id", "_adicional", "")

\* Paso 5: the result left-joined with the supplemental table.
merge_adicionales(consolidado, adicionales) ==
    merge_left(consolidado, adicionales, "producto_id", "", "_adicional")

columnas_principales ==
    <<"producto_id", "nombre", "categoria", "precio_usd", "tipo_cambio",
      "precio_local", "moneda_local", "fecha", "fecha_procesamiento">>

\* columnas_disponibles that keeps the preferred columns only.
columnas_solo_principales(cols) ==
    SelectSeq(columnas_principales, LAMBDA c : c \in Range(cols))

\* Paso 8: the preferred columns that exist, then the other columns.
columnas_disponibles(cols) ==
    LET otras_columnas == SelectSeq(cols, LAMBDA c : c \notin Range(columnas_principales))
        columnas_ordenadas == columnas_principales \o otras_columnas
    IN  SelectSeq(columnas_ordenadas, LAMBDA c : c \in Range(cols))

\* The KeyError of consolidar_datos: a column the steps index is not there.
consolidar_falla(productos, tipos, adicionales, moneda) ==
    \/ "moneda_destino" \notin Range(tipos.cols)
    \/ /\ \E i \in DOMAIN limpiar_dataframe(tipos).rows :
              limpiar_dataframe(tipos).rows[i]["moneda_destino"] = moneda
       /\ {"fecha", "tipo_cambio"} \ Range(tipos.cols) # {}
    \/ "producto_id" \notin Range(productos.cols)
    \/ "producto_id" \notin Range(adicionales.cols)

\* The table consolidar_datos returns when no step raises; dia is the day
\* datetime.now() gives.
consolidar_datos(productos, tipos, adicionales, moneda, dia) ==
    LET p1 == limpiar_dataframe(productos)
        t1 == limpiar_dataframe(tipos)
        a1 == limpiar_dataframe(adicionales)
        tc == tipo_cambio_local(t1, moneda, dia)
        p2 == IF "fecha" \notin Range(p1.cols)
              THEN ConColumnaFija(p1, "fecha", strftime(dia)) ELSE p1
        m1 == merge_tipo_cambio(p2, tc)
        m2 == merge_adicionales(m1, a1)
        c6 == calcular_precio_local(m2, moneda)
        c7 == ConColumnaFija(ConColumnaFija(c6, "fecha_procesamiento", strftime_ts(dia)),
                             "pipeline_version", "1.0")
    IN  Proyectar(c7, columnas_disponibles(c7.cols))

(***************************************************************************)
(* src/src/transformer.py: generar_resumen_estadistico.                    *)
(***************************************************************************)
RECURSIVE Suma(_)
Suma(s) == IF s = <<>> THEN 0 ELSE Head(s) + Suma(Tail(s))

\* min, max, mean and median of column c, missing values skipped (pandas
\* skipna); each is NaN when no value is left.  promedio is the pair
\* <<sum, count>> and mediana counts half units.
estadisticas(t, c) ==
    LET todos == [i \in DOMAIN t.rows |-> t.rows[i][c]]
        v     == SortSeq(SelectSeq(todos, LAMBDA x : x # NaN), LAMBDA a, b : a < b)
        n     == Len(v)
    IN  IF n = 0
        THEN [min |-> NaN, max |-> NaN, promedio |-> NaN, mediana |-> NaN]
        ELSE [min |-> v[1], max |-> v[n], promedio |-> <<Suma(v), n>>,
              mediana |-> v[(n + 1) \div 2] + v[(n + 2) \div 2]]

\* df[c].value_counts().to_dict(): how many rows carry each value of c.
value_counts(t, c) ==
    LET valores == {t.rows[i][c] : i \in DOMAIN t.rows} \ {None}
    IN  [x \in valores |-> Cardinality({i \in DOMAIN t.rows : t.rows[i][c] = x})]

\* Whether the summary carries the statistics block of column c.
incluye_bloque(t, c) == c \in Range(t.cols)

\* The count by category left out for a table without rows.
incluye_por_categoria_con_filas(t) == "categoria" \in Range(t.cols) /\ Len(t.rows) > 0

\* Whether the summary carries the count by category.
incluye_por_categoria(t) == "categoria" \in Range(t.cols)

generar_resumen_estadistico(t, dia) ==
    LET claves == {"total_registros", "total_columnas", "columnas", "fecha_procesamiento"}
                  \cup {c \in {"precio_usd", "precio_local"} : incluye_bloque(t, c)}
                  \cup (IF incluye_por_categoria(t) THEN {"por_categoria"} ELSE {})
    IN  [k \in claves |->
            CASE k = "total_registros" -> Len(t.rows)
              [] k = "total_columnas" -> Len(t.cols)
              [] k = "columnas" -> t.cols
              [] k = "fecha_procesamiento" -> strftime_ts(dia)
              [] k = "por_categoria" -> value_counts(t, "categoria")
              [] OTHER -> estadisticas(t, k)]


(***************************************************************************)
(* src/src/utils.py: hacer_request_api.                                    *)
(*                                                                         *)
(* A response of requests.get is [causa, status, cuerpo]: causa "timeout"  *)
(* (requests.exceptions.Timeout), "transporte" (any other failure of the   *)
(* transport, a RequestException) or "respuesta" (an HTTP response came    *)
(* back, with its status code and its body).  A body is NoJson or the      *)
(* decoded JSON object, a function from its keys to their values.          *)
(***************************************************************************)
NoJson == [no_json |-> TRUE]

\* response.raise_for_status(): requests raises HTTPError for the client
\* and server error codes, 400 to 599.
raise_for_status(status) == 400 <= status /\ status < 600

\* The number of times one call runs requests.get.
intentos(resp) == 1

\* One call of hacer_request_api that meets response resp: the GETs it
\* issued, the exception it raised ("" when it returned) and the value it
\* returned (Nulo when it raised).
hacer_request_api(resp) ==
    LET excepcion ==
            IF resp.causa = "timeout" THEN "Timeout"
            ELSE IF resp.causa = "transporte" THEN "ConnectionError"
            ELSE IF raise_for_status(resp.status) THEN "HTTPError"
            ELSE IF resp.cuerpo = NoJson THEN "JSONDecodeError"
            ELSE ""
    IN  [resp |-> resp, n_get |-> intentos(resp), excepcion |-> excepcion,
         data |-> IF excepcion = "" THEN resp.cuerpo ELSE Nulo]

(***************************************************************************)
(* src/src/extractor.py.                                                   *)
(***************************************************************************)
\* generar_fechas_historicas counting from yesterday (range(1, n + 1)).
generar_fechas_desde_ayer(dias_atras, dia) ==
    [i \in 1..dias_atras |-> strftime(dia - i)]

\* today, today - 1, ..., today - (dias_atras - 1), as strings.
generar_fechas_historicas(dias_atras, dia) ==
    [i \in 1..dias_atras |-> strftime(dia - (i - 1))]

\* The i-th draw (counted from 0) of a random stream seeded with semilla,
\* over the values a draw can take.
sorteo(valores, semilla, i) == valores[((semilla + i) % Len(valores)) + 1]

\* random.uniform(0.95, 1.05), (0.98, 1.02), (0.8, 1.2) in hundredths, and
\* the ratings random.choice draws from.
VariacionPrecio == <<95, 105>>
VariacionTasa == <<98, 102>>
VariacionVolumen == <<80, 120>>
Ratings == <<"A", "A+", "A-", "B+">>

\* pd.DataFrame(registros): a table with the columns cols, or, for an empty
\* list, a table with no column and no row.
DataFrame(registros, cols) ==
    IF registros = <<>> THEN [cols |-> <<>>, rows |-> <<>>]
    ELSE [cols |-> cols, rows |-> registros]

\* The loops of an extractor: one step per date and per entity of
\* entidades, dates outermost; step k (counted from 0) makes one row.
Replicar(fechas, entidades) ==
    LET n == Len(entidades)
    IN  [k \in 1..(Len(fechas) * n) |->
            [fecha |-> fechas[((k - 1) \div n) + 1],
             e     |-> entidades[((k - 1) % n) + 1],
             k     |-> k - 1]]

tabla_productos(data, fechas, semilla) ==
    LET pasos == IF "rates" \in DOMAIN data THEN Replicar(fechas, data["rates"]) ELSE <<>>
        Registro(p) ==
            [producto_id |-> "CURR_" \o p.e[1],
             nombre      |-> "Moneda " \o p.e[1],
             precio_usd  |-> IF p.e[2] > 0
                             THEN RoundDiv(1000000 * sorteo(VariacionPrecio, semilla, p.k),
                                           p.e[2])
                             ELSE 0,
             categoria   |-> "Forex",
             fecha       |-> p.fecha]
    IN  DataFrame([i \in DOMAIN pasos |-> Registro(pasos[i])],
                  <<"producto_id", "nombre", "precio_usd", "categoria", "fecha">>)

tabla_tipos_cambio(data, fechas, semilla) ==
    LET rates == IF "rates" \in DOMAIN data THEN data["rates"] ELSE <<>>
        pasos == Replicar(fechas, rates)
        Registro(p) ==
            [fecha          |-> p.fecha,
             moneda_origen  |-> "USD",
             moneda_destino |-> p.e[1],
             tipo_cambio    |-> RoundDiv(p.e[2] * sorteo(VariacionTasa, semilla, p.k), 100)]
    IN  DataFrame([i \in DOMAIN pasos |-> Registro(pasos[i])],
                  <<"fecha", "moneda_origen", "moneda_destino", "tipo_cambio">>)

\* The snapshot taken whole, without the [:10].
primeros_todos(entidades) == entidades

\* list(rates.items())[:10]
primeros(entidades) == SubSeq(entidades, 1, IF Len(entidades) < 10 THEN Len(entidades) ELSE 10)

tabla_adicionales(data, fechas, semilla) ==
    LET pasos == IF "data" \in DOMAIN data /\ "rates" \in DOMAIN data["data"]
                 THEN Replicar(fechas, primeros(data["data"]["rates"]))
                 ELSE <<>>
        Registro(p) ==
            [producto_id |-> "CRYPTO_" \o p.e[1],
             rating      |-> sorteo(Ratings, semilla, p.k),
             volumen     |-> p.e[2] * 10000 * sorteo(VariacionVolumen, semilla, p.k),
             fecha       |-> p.fecha]
    IN  DataFrame([i \in DOMAIN pasos |-> Registro(pasos[i])],
                  <<"producto_id", "rating", "volumen", "fecha">>)


(***************************************************************************)
(* The feeds: what requests.get may bring back.                            *)
(***************************************************************************)
\* A snapshot of k entities C1..Ck with rates 0.0001, 0.0002, ...
Entidades(k) == [i \in 1..k |-> <<"C" \o ToString(i), i>>]

Payloads ==
    { <<>>,                                                  \* {}
      [rates |-> <<>>],
      [rates |-> << <<"ARS", 14505>> >>],
      [rates |-> << <<"ARS", 14505>>, <<"EUR", 9000>>, <<"XXX", 0>> >>],
      [data |-> [currency |-> "USD"]],
      [data |-> [currency |-> "USD", rates |-> Entidades(1)]],
      [data |-> [currency |-> "USD", rates |-> Entidades(MaxEntidades)]] }

Respuestas ==
    { [causa |-> "timeout", status |-> 0, cuerpo |-> NoJson],
      [causa |-> "transporte", status |-> 0, cuerpo |-> NoJson] }
    \cup [causa : {"respuesta"}, status : {200, 300, 404, 503},
          cuerpo : Payloads \cup {NoJson}]

Semillas == {0, 1}

DiasInicio == {60, 366, 672}    \* 2024-03-01, 2025-01-01, 2025-11-03

DatosNulos == [productos |-> Nulo, tipos_cambio |-> Nulo, adicionales |-> Nulo]

PeticionNula == [resp |-> Nulo, n_get |-> 0, excepcion |-> "", data |-> Nulo]

(***************************************************************************)
(* The run: extraer_todas_las_fuentes, then transformar_datos_completo.    *)
(***************************************************************************)
InitComun ==
    /\ peticion = PeticionNula
    /\ n_get = 0
    /\ df_consolidado = Nulo
    /\ resumen = Nulo
    /\ error = ""
    /\ retorno = Nulo
    /\ traza = <<>>
    /\ llamada = Nulo
    /\ ticks = 0
    /\ staging = <<>>
    /\ cargas = <<>>

Init ==
    /\ InitComun
    /\ pc = "productos"
    /\ hoy \in DiasInicio
    /\ dias_historico \in 0..MaxDias
    /\ moneda_local = "ARS"
    /\ datos = DatosNulos
    /\ df = Nulo

\* Midnight passes between two calls.
Tick ==
    /\ pc \in {"productos", "tipos_cambio", "adicionales", "consolidar", "resumen"}
    /\ ticks < MaxTicks
    /\ hoy' = hoy + 1
    /\ ticks' = ticks + 1
    /\ UNCHANGED <<staging, cargas, pc, dias_historico, moneda_local, datos, peticion, n_get,
                   df_consolidado, resumen, error, retorno, traza, df, llamada>>

\* An except clause that logs and goes on.
propaga_nada(exc) == ""

\* What the except clauses of a stage do with exception exc: log and raise.
\* The stage returns nothing and the tables built so far are dropped.
propaga(exc) == exc

\* An extractor that fetches once for every date.
llamadas_por_dia(dias_atras) == dias_atras

\* The calls of hacer_request_api one extractor makes: the call stands
\* before the loop over the dates, whatever dias_historico is.
llamadas_api(dias_atras) == 1

\* The table extractor etapa builds from the fetched data.
tabla_de(etapa, data, fechas, semilla) ==
    CASE etapa = "productos" -> tabla_productos(data, fechas, semilla)
      [] etapa = "tipos_cambio" -> tabla_tipos_cambio(data, fechas, semilla)
      [] etapa = "adicionales" -> tabla_adicionales(data, fechas, semilla)

\* One extractor: fetch, build the rows for every date, validate, return.
Extraer(etapa, siguiente) ==
    /\ pc = etapa
    /\ \E resp \in Respuestas, semilla \in Semillas :
          LET r == hacer_request_api(resp)
              t == tabla_de(etapa, r.data,
                            generar_fechas_historicas(dias_historico, hoy), semilla)
              exc == IF r.excepcion # "" THEN r.excepcion
                     ELSE IF ~validar_dataframe_basico(t) THEN "ValueError"
                     ELSE ""
          IN  /\ peticion' = r
              /\ n_get' = n_get + llamadas_api(dias_historico) * r.n_get
              /\ traza' = Append(traza, etapa)
              /\ IF exc # ""
                 THEN /\ error' = propaga(exc)
                      /\ pc' = IF error' = "" THEN siguiente ELSE "failed"
                      /\ datos' = DatosNulos
                 ELSE /\ error' = ""
                      /\ pc' = siguiente
                      /\ datos' = [datos EXCEPT ![etapa] = t]
    /\ UNCHANGED <<staging, cargas, hoy, dias_historico, moneda_local, df_consolidado, resumen,
                   retorno, df, llamada, ticks>>

ExtraerProductos == Extraer("productos", "tipos_cambio")

ExtraerTiposCambio == Extraer("tipos_cambio", "adicionales")

ExtraerAdicionales == Extraer("adicionales", "consolidar")

\* transformar_datos_completo, first call: consolidar_datos.
Consolidar ==
    /\ pc = "consolidar"
    /\ traza' = Append(traza, "consolidar")
    /\ IF consolidar_falla(datos.productos, datos.tipos_cambio, datos.adicionales,
                           moneda_local)
       THEN /\ error' = propaga("KeyError")
            /\ pc' = IF error' = "" THEN "resumen" ELSE "failed"
            /\ df_consolidado' = Nulo
       ELSE /\ error' = ""
            /\ pc' = "resumen"
            /\ df_consolidado' = consolidar_datos(datos.productos, datos.tipos_cambio,
                                                  datos.adicionales, moneda_local, hoy)
    /\ UNCHANGED <<staging, cargas, hoy, dias_historico, moneda_local, datos, peticion, n_get,
                   resumen, retorno, df, llamada, ticks>>

\* transformar_datos_completo, second call: generar_resumen_estadistico,
\* and the return of the pair.
Resumir ==
    /\ pc = "resumen"
    /\ traza' = Append(traza, "resumen")
    /\ resumen' = generar_resumen_estadistico(df_consolidado, hoy)
    /\ retorno' = [df_consolidado |-> df_consolidado, resumen |-> resumen']
    /\ pc' = "done"
    /\ UNCHANGED <<staging, cargas, hoy, dias_historico, moneda_local, datos, peticion, n_get,
                   df_consolidado, error, df, llamada, ticks>>

Next ==
    \/ Tick
    \/ ExtraerProductos
    \/ ExtraerTiposCambio
    \/ ExtraerAdicionales
    \/ Consolidar
    \/ Resumir

Spec == Init /\ [][Next]_vars


(***************************************************************************)
(* transformar_datos_completo called on tables of the caller's own.        *)
(***************************************************************************)
RECURSIVE SeqDe(_)
\* The elements of a finite set, in some fixed order.
SeqDe(S) == IF S = {} THEN <<>>
            ELSE LET x == CHOOSE x \in S : TRUE IN <<x>> \o SeqDe(S \ {x})

\* The sequences over S of at most n elements.
SecuenciasHasta(S, n) == UNION {[1..k -> S] : k \in 0..n}

\* The table without column c.
SinColumna(t, c) == Proyectar(t, SelectSeq(t.cols, LAMBDA k : k # c))

HoyDirecto == 672
Hoy == strftime(HoyDirecto)
Ayer == strftime(HoyDirecto - 1)

FilasProductos ==
    { [producto_id |-> id, nombre |-> "Moneda " \o id,
       precio_usd |-> IF id = "P1" THEN 15000 ELSE 5000,
       categoria |-> "Forex", fecha |-> f] : id \in {"P1", "P2"}, f \in {Hoy, Ayer} }

TablasProductos ==
    LET completas == { [cols |-> <<"producto_id", "nombre", "precio_usd", "categoria", "fecha">>,
                        rows |-> r] : r \in SecuenciasHasta(FilasProductos, MaxFilas) }
    IN  completas
        \cup {SinColumna(t, "fecha") : t \in completas}
        \cup {SinColumna(t, "precio_usd") : t \in completas}

FilasTiposCambio ==
    { [fecha |-> Hoy, moneda_origen |-> "USD", moneda_destino |-> "ARS", tipo_cambio |-> 14505],
      [fecha |-> Hoy, moneda_origen |-> "USD", moneda_destino |-> "ARS", tipo_cambio |-> 10100],
      [fecha |-> Ayer, moneda_origen |-> "USD", moneda_destino |-> "ARS", tipo_cambio |-> 14505],
      [fecha |-> Hoy, moneda_origen |-> "USD", moneda_destino |-> "EUR", tipo_cambio |-> 9000] }

TablasTiposCambio ==
    LET completas == { [cols |-> <<"fecha", "moneda_origen", "moneda_destino", "tipo_cambio">>,
                        rows |-> SeqDe(S)] : S \in SUBSET FilasTiposCambio }
    IN  completas \cup {SinColumna(t, "moneda_destino") : t \in {u \in completas : Len(u.rows) = 1}}

FilasAdicionales ==
    { [producto_id |-> "P1", rating |-> "A", volumen |-> 1200000, fecha |-> Hoy],
      [producto_id |-> "P1", rating |-> "B+", volumen |-> 800000, fecha |-> Ayer],
      [producto_id |-> "P3", rating |-> "A", volumen |-> 1200000, fecha |-> Hoy] }

TablasAdicionales ==
    { [cols |-> <<"producto_id", "rating", "volumen", "fecha">>,
       rows |-> SeqDe(S)] : S \in SUBSET FilasAdicionales }

InitTransformar ==
    /\ InitComun
    /\ pc = "consolidar"
    /\ hoy = HoyDirecto
    /\ dias_historico = 0
    /\ moneda_local \in {"ARS", "XYZ"}
    /\ datos \in [productos : TablasProductos, tipos_cambio : TablasTiposCambio,
                  adicionales : TablasAdicionales]
    /\ df = Nulo

NextTransformar == Consolidar \/ Resumir

SpecTransformar == InitTransformar /\ [][NextTransformar]_vars


(***************************************************************************)
(* The table functions called one by one on a table of the caller's.       *)
(***************************************************************************)
TablasDirectas ==
    { [cols |-> <<"precio_usd", "tipo_cambio">>, rows |-> r] :
            r \in SecuenciasHasta([precio_usd : {NaN, 5000, 15000},
                                   tipo_cambio : {NaN, 10100, 14505}], MaxFilas) }
    \cup { [cols |-> <<"producto_id", "precio_usd", "fecha">>, rows |-> r] :
            r \in SecuenciasHasta([producto_id : {None, "P1"},
                                   precio_usd : {NaN, 0, 15000},
                                   fecha : {None, Hoy}], MaxFilas) }
    \cup { [cols |-> <<"fecha", "moneda_destino", "tipo_cambio">>, rows |-> r] :
            r \in SecuenciasHasta([fecha : {Hoy},
                                   moneda_destino : {"ARS", "EUR"},
                                   tipo_cambio : {NaN, 0, 14505}], MaxFilas) }
    \cup { [cols |-> <<"categoria", "precio_local">>, rows |-> r] :
            r \in SecuenciasHasta([categoria : {None, "Forex", "Crypto"},
                                   precio_local : {NaN, 100, 300}], MaxFilas) }

InitTabla ==
    /\ InitComun
    /\ pc = "tabla"
    /\ hoy = HoyDirecto
    /\ dias_historico = 0
    /\ moneda_local \in {"ARS", "XYZ"}
    /\ datos = DatosNulos
    /\ df \in TablasDirectas \cup {Nulo}

\* limpiar_dataframe(df), and then limpiar_dataframe of what that call
\* returned.  Each step of the function makes a new table (drop_duplicates
\* and dropna return copies, and the filling assigns to the copy), so df
\* itself stays as it was.
LimpiarDataframe ==
    /\ pc \in {"tabla", "limpia"}
    /\ df # Nulo
    /\ LET arg == IF pc = "tabla" THEN df ELSE llamada.res
       IN  llamada' = [fn |-> "limpiar_dataframe", arg |-> arg,
                       res |-> limpiar_dataframe(arg)]
    /\ pc' = IF pc = "tabla" THEN "limpia" ELSE "done"
    /\ UNCHANGED <<staging, cargas, hoy, dias_historico, moneda_local, datos, peticion, n_get,
                   df_consolidado, resumen, error, retorno, traza, df, ticks>>

\* calcular_precio_local(df, moneda_local): the new columns are assigned
\* to df itself, which is also what the call returns.
CalcularPrecioLocal ==
    /\ pc = "tabla"
    /\ df # Nulo
    /\ llamada' = [fn |-> "calcular_precio_local", arg |-> df,
                   res |-> calcular_precio_local(df, moneda_local)]
    /\ df' = llamada'.res
    /\ pc' = "done"
    /\ UNCHANGED <<staging, cargas, hoy, dias_historico, moneda_local, datos, peticion, n_get,
                   df_consolidado, resumen, error, retorno, traza, ticks>>

\* generar_resumen_estadistico(df)
GenerarResumen ==
    /\ pc = "tabla"
    /\ df # Nulo
    /\ llamada' = [fn |-> "generar_resumen_estadistico", arg |-> df,
                   res |-> generar_resumen_estadistico(df, hoy)]
    /\ pc' = "done"
    /\ UNCHANGED <<staging, cargas, hoy, dias_historico, moneda_local, datos, peticion, n_get,
                   df_consolidado, resumen, error, retorno, traza, df, ticks>>

\* The names a caller gives its table: the default and an extractor's.
Nombres == {"DataFrame", "Productos"}

\* error_msg = f"{nombre} esta vacio" (the accents of the source left out).
error_msg(nombre) == nombre \o " esta vacio"

\* validar_dataframe_basico(df, nombre): returns True (res) or raises
\* ValueError(error_msg).
ValidarDataframe ==
    /\ pc = "tabla"
    /\ \E nombre \in Nombres :
          llamada' = [fn |-> "validar_dataframe_basico", arg |-> df, nombre |-> nombre,
                      res |-> validar_dataframe_basico(df),
                      mensaje |-> IF validar_dataframe_basico(df) THEN ""
                                  ELSE error_msg(nombre)]
    /\ error' = IF llamada'.res THEN "" ELSE "ValueError"
    /\ pc' = IF llamada'.res THEN "done" ELSE "failed"
    /\ UNCHANGED <<staging, cargas, hoy, dias_historico, moneda_local, datos, peticion, n_get,
                   df_consolidado, resumen, retorno, traza, df, ticks>>

NextTabla ==
    \/ LimpiarDataframe
    \/ CalcularPrecioLocal
    \/ GenerarResumen
    \/ ValidarDataframe

SpecTabla == InitTabla /\ [][NextTabla]_vars


\* The direct calls together: transformar_datos_completo and the table
\* functions, each on tables of the caller's own.
InitDirecto == InitTransformar \/ InitTabla

NextDirecto == NextTransformar \/ NextTabla

SpecDirecto == InitDirecto /\ [][NextDirecto]_vars

\* A run that starts at the extraction or, with tables of the caller's own,
\* at transformar_datos_completo.
InitCorrida == Init \/ InitTransformar

SpecCorrida == InitCorrida /\ [][Next]_vars

(***************************************************************************)
(* src/dags/pipeline.py: tarea_cargar_staging.                             *)
(*                                                                         *)
(* Every DAG run, and every retry of the task, is one run of the task; the *)
(* DAG sets no max_active_runs of its own, so a triggered run may overlap  *)
(* a scheduled one.  A run takes three steps, each of which other runs may *)
(* come between: it receives the consolidated table and checks it, it      *)
(* truncates staging_consolidado in a transaction of its own, and it       *)
(* appends its rows with to_sql in another.                                *)
(***************************************************************************)
MaxCorridas == 2     \* runs of tarea_cargar_staging that may overlap

Corridas == 1..MaxCorridas

\* The variables of the extraction and the transformation.
vars_nucleo == <<pc, hoy, dias_historico, moneda_local, datos, peticion, n_get,
                 df_consolidado, resumen, error, retorno, traza, df, llamada, ticks>>

\* What xcom_pull(task_ids='transformar_datos') may hand to a run: nothing,
\* a table without rows, or a table of one or two rows.
TablasConsolidadas ==
    {Nulo}
    \cup { [cols |-> <<"producto_id", "precio_local", "fecha">>, rows |-> r] :
              r \in { <<>>,
                      <<[producto_id |-> "P1", precio_local |-> 145100, fecha |-> Hoy]>>,
                      <<[producto_id |-> "P2", precio_local |-> 145100, fecha |-> Hoy]>>,
                      <<[producto_id |-> "P1", precio_local |-> 145100, fecha |-> Hoy],
                        [producto_id |-> "P2", precio_local |-> 145100, fecha |-> Hoy]>> } }

\* The row an earlier load left in the staging table.
FilaAnterior == [producto_id |-> "P0", precio_local |-> 100, fecha |-> Ayer]

InitCarga ==
    /\ pc = "carga"
    /\ hoy = HoyDirecto
    /\ dias_historico = 0
    /\ moneda_local = "ARS"
    /\ datos = DatosNulos
    /\ peticion = PeticionNula
    /\ n_get = 0
    /\ df_consolidado = Nulo
    /\ resumen = Nulo
    /\ error = ""
    /\ retorno = Nulo
    /\ traza = <<>>
    /\ df = Nulo
    /\ llamada = Nulo
    /\ ticks = 0
    /\ staging \in {<<>>, <<FilaAnterior>>}
    /\ cargas \in [Corridas -> [pc : {"inicio"}, df : TablasConsolidadas,
                                error : {""}, registros : {0}]]

\* The guard that drops the table before the TRUNCATE, with the test for
\* an empty table left out.
sin_datos_solo_none(t) == t = Nulo

\* df_consolidado is None or len(df_consolidado) == 0
sin_datos(t) == t = Nulo \/ Len(t.rows) = 0

\* xcom_pull and the check of the table: ValueError when there is nothing
\* to load.
CargaRecibir(c) ==
    /\ pc = "carga"
    /\ cargas[c].pc = "inicio"
    /\ cargas' = [cargas EXCEPT ![c] =
                     IF sin_datos(cargas[c].df)
                     THEN [@ EXCEPT !.pc = "failed", !.error = "ValueError"]
                     ELSE [@ EXCEPT !.pc = "truncate"]]
    /\ UNCHANGED staging
    /\ UNCHANGED vars_nucleo

\* get_database_engine and TRUNCATE TABLE staging_consolidado, committed
\* when the with block ends; a failure of the database raises and leaves
\* the table as it was.
CargaTruncar(c) ==
    /\ pc = "carga"
    /\ cargas[c].pc = "truncate"
    /\ \E ok \in BOOLEAN :
          IF ok
          THEN /\ staging' = <<>>
               /\ cargas' = [cargas EXCEPT ![c].pc = "append"]
          ELSE /\ staging' = staging
               /\ cargas' = [cargas EXCEPT ![c].pc = "failed",
                                           ![c].error = "OperationalError"]
    /\ UNCHANGED vars_nucleo

\* df_consolidado.to_sql(if_exists='append', index=False): the rows are
\* added to the table in one transaction, and the run returns their number;
\* a failure raises and adds nothing.
CargaAppend(c) ==
    /\ pc = "carga"
    /\ cargas[c].pc = "append"
    /\ \E ok \in BOOLEAN :
          IF ok
          THEN /\ staging' = staging \o cargas[c].df.rows
               /\ cargas' = [cargas EXCEPT ![c].pc = "done",
                                           ![c].registros = Len(cargas[c].df.rows)]
          ELSE /\ staging' = staging
               /\ cargas' = [cargas EXCEPT ![c].pc = "failed",
                                           ![c].error = "OperationalError"]
    /\ UNCHANGED vars_nucleo

NextCarga == \E c \in Corridas : CargaRecibir(c) \/ CargaTruncar(c) \/ CargaAppend(c)

SpecCarga == InitCarga /\ [][NextCarga]_vars

(***************************************************************************)
(* Properties.                                                             *)
(***************************************************************************)
\* The rows of table t, as a set.
Filas(t) == Range(t.rows)

\* Row r carries a value (not a missing one) in column c.
Presente(r, c) == c \in DOMAIN r /\ ~isna(c, r[c])

\* The last direct call was of function fn.
Llamo(fn) == llamada # Nulo /\ llamada.fn = fn

\* Table t obeys the derived price rule for currency moneda: in every row
\* with precio_usd and tipo_cambio present, precio_local is a whole number
\* of cents at most half a cent away from precio_usd * tipo_cambio, and
\* moneda_local is moneda.
PrecioLocalDerivado(t, moneda) ==
    \A r \in Filas(t) :
        (Presente(r, "precio_usd") /\ Presente(r, "tipo_cambio")) =>
            /\ Presente(r, "precio_local")
            /\ r["precio_local"] % 100 = 0
            /\ 2 * (r["precio_local"] * 10000 - r["precio_usd"] * r["tipo_cambio"]) <= 1000000
            /\ 2 * (r["precio_usd"] * r["tipo_cambio"] - r["precio_local"] * 10000) <= 1000000
            /\ "moneda_local" \in DOMAIN r
            /\ r["moneda_local"] = moneda

\* C1: every row of the table consolidar_datos returns, and of the table
\* calcular_precio_local returns, that has both precio_usd and tipo_cambio
\* has precio_local = precio_usd * tipo_cambio rounded to 2 decimals and
\* moneda_local equal to the moneda_local argument.
C1_PrecioLocal ==
    /\ df_consolidado # Nulo => PrecioLocalDerivado(df_consolidado, moneda_local)
    /\ Llamo("calcular_precio_local") => PrecioLocalDerivado(llamada.res, moneda_local)

\* A consolidated row whose product is not a whole number of cents, so that
\* the rounding changed it.
C1_Testigo ==
    /\ df_consolidado # Nulo
    /\ \E r \in Filas(df_consolidado) :
          /\ Presente(r, "precio_usd") /\ Presente(r, "tipo_cambio")
          /\ (r["precio_usd"] * r["tipo_cambio"]) % 1000000 # 0
          /\ r["moneda_local"] = moneda_local

\* consolidar_datos has returned a table for the tables of datos.
Consolidado == df_consolidado # Nulo /\ datos.productos # Nulo

\* C2: the table consolidar_datos returns has as many rows as
\* limpiar_dataframe(productos): the joins neither drop nor multiply rows.
C2_MismasFilas ==
    Consolidado =>
        Len(df_consolidado.rows) = Len(limpiar_dataframe(datos.productos).rows)

\* The cleaned rates table has the moneda_destino column and no row of the
\* local currency.
SinTipoDeCambio ==
    /\ datos.tipos_cambio # Nulo
    /\ "moneda_destino" \in Range(datos.tipos_cambio.cols)
    /\ \A r \in Filas(limpiar_dataframe(datos.tipos_cambio)) :
          r["moneda_destino"] # moneda_local

\* C3: when the cleaned rates have no row of moneda_local, consolidar_datos
\* does not raise and every row it returns has tipo_cambio 1.0.
C3_TipoCambioUno ==
    (SinTipoDeCambio /\ "consolidar" \in Range(traza)) =>
        /\ error = ""
        /\ \A r \in Filas(df_consolidado) : r["tipo_cambio"] = 10000

\* C4: limpiar_dataframe applied to its own result returns the same rows.
C4_Idempotente ==
    (Llamo("limpiar_dataframe") /\ pc = "done") => llamada.res.rows = llamada.arg.rows


Etapas == <<"productos", "tipos_cambio", "adicionales", "consolidar", "resumen">>

Extractores == {"productos", "tipos_cambio", "adicionales"}

\* The place of stage e in the order of the run.
Lugar(e) == CHOOSE i \in DOMAIN Etapas : Etapas[i] = e

\* C5: a run returns a complete pair or nothing.  The stages run in the
\* order productos, tipos_cambio, adicionales, consolidar, resumen, none
\* skipped; consolidar_datos starts only with all three tables extracted,
\* generar_resumen_estadistico only with the consolidated table; an
\* exception of any stage reaches the caller, ends the run at that stage
\* and leaves nothing returned.
C5_CompletoONada ==
    /\ \A i \in 1..(Len(traza) - 1) : Lugar(traza[i + 1]) = Lugar(traza[i]) + 1
    /\ pc # "failed" => \A e \in Range(traza) \cap Extractores : datos[e] # Nulo
    /\ "consolidar" \in Range(traza) => \A e \in Extractores : datos[e] # Nulo
    /\ "resumen" \in Range(traza) => df_consolidado # Nulo /\ error = ""
    /\ error # "" <=> pc = "failed"
    /\ pc = "failed" =>
          /\ retorno = Nulo /\ resumen = Nulo /\ df_consolidado = Nulo
          /\ traza # <<>> /\ "resumen" \notin Range(traza)
          /\ traza[Len(traza)] \in Extractores => datos = DatosNulos
    /\ retorno # Nulo <=> pc = "done"
    /\ retorno # Nulo =>
          /\ retorno.df_consolidado = df_consolidado /\ df_consolidado # Nulo
          /\ retorno.resumen = resumen /\ resumen # Nulo
          /\ traza[Len(traza)] = "resumen"

\* The second extractor raised after the first had returned its table.
C5_Testigo ==
    /\ pc = "failed"
    /\ traza = <<"productos", "tipos_cambio">>
    /\ error = "ValueError"
    /\ retorno = Nulo

\* The extractor the last request was made by.
EtapaPeticion == traza[IF Len(traza) < 3 THEN Len(traza) ELSE 3]

\* The payload carries the key the extractor reads its entities from.
TieneClave(etapa, data) ==
    IF etapa = "adicionales"
    THEN "data" \in DOMAIN data /\ "rates" \in DOMAIN data["data"]
    ELSE "rates" \in DOMAIN data

\* The entities of a payload that carries the key.
EntidadesDe(etapa, data) ==
    IF etapa = "adicionales" THEN data["data"]["rates"] ELSE data["rates"]

\* A request was made and hacer_request_api returned its payload.
PeticionServida == traza # <<>> /\ peticion.resp # Nulo /\ peticion.excepcion = ""

\* C6: no extractor returns a table without rows.  With dias_historico >= 1
\* and a payload that has the expected key and at least one entity the
\* extractor returns a table of at least one row; with a payload that lacks
\* the key it raises the ValueError of validar_dataframe_basico.
C6_NuncaVacio ==
    /\ \A e \in Extractores : datos[e] # Nulo => Len(datos[e].rows) >= 1
    /\ PeticionServida =>
          LET e == EtapaPeticion
              d == peticion.data
          IN  /\ ~TieneClave(e, d) =>
                    pc = "failed" /\ error = "ValueError" /\ traza[Len(traza)] = e
              /\ (/\ TieneClave(e, d)
                  /\ Len(EntidadesDe(e, d)) >= 1
                  /\ dias_historico >= 1) =>
                    datos[e] # Nulo /\ Len(datos[e].rows) >= 1

\* An extractor met the payload {} and raised the empty-result error.
C6_Testigo ==
    /\ PeticionServida
    /\ peticion.data = <<>>
    /\ dias_historico >= 1
    /\ pc = "failed"
    /\ error = "ValueError"

\* Table t of extractor e covers the n days ending on day dia for the
\* entities rates: its dates are the n distinct strings of dia, dia - 1, ...,
\* dia - (n - 1) and it has exactly one row per entity and date.
Cobertura(t, e, rates, n, dia) ==
    LET fechas == {strftime(dia - i) : i \in 0..(n - 1)}
        Entidad(r) == IF e = "productos" THEN r["producto_id"] ELSE r["moneda_destino"]
        Nombre(x) == IF e = "productos" THEN "CURR_" \o x[1] ELSE x[1]
    IN  /\ {r["fecha"] : r \in Filas(t)} = fechas
        /\ Cardinality(fechas) = n
        /\ Len(t.rows) = n * Len(rates)
        /\ \A f \in fechas : \A i \in DOMAIN rates :
              Cardinality({j \in DOMAIN t.rows :
                              /\ t.rows[j]["fecha"] = f
                              /\ Entidad(t.rows[j]) = Nombre(rates[i])}) = 1

\* C7: for n >= 1 and a feed with at least one entity, extraer_api_productos
\* and extraer_api_tipos_cambio return a table with exactly the n dates
\* today, today - 1, ..., today - (n - 1) and one row per entity and date,
\* n times the number of entities in all.
C7_Fechas ==
    [][\A e \in {"productos", "tipos_cambio"} :
          (/\ pc = e
           /\ traza' # traza
           /\ peticion'.excepcion = ""
           /\ "rates" \in DOMAIN peticion'.data
           /\ Len(peticion'.data["rates"]) >= 1
           /\ dias_historico >= 1) =>
             /\ pc' \notin {e, "failed"}
             /\ Cobertura(datos'[e], e, peticion'.data["rates"], dias_historico, hoy)
      ]_vars

\* Two days of three currencies, extracted across the turn of the year.
C7_Testigo ==
    /\ datos.tipos_cambio # Nulo
    /\ dias_historico = 2
    /\ Len(datos.tipos_cambio.rows) = 6
    /\ {r["fecha"] : r \in Filas(datos.tipos_cambio)} = {"2025-01-01", "2024-12-31"}

\* C8: one call of hacer_request_api issues exactly one GET and either
\* returns the decoded JSON of a 2xx response or raises, without data: on a
\* timeout, a transport failure, a non-2xx status and a body that is not
\* JSON it raises an error of that cause's own kind.
C8_UnGetORaise ==
    peticion.resp # Nulo =>
        LET r == peticion.resp
            dosxx == r.causa = "respuesta" /\ 200 <= r.status /\ r.status < 300
        IN  /\ peticion.n_get = 1
            /\ peticion.excepcion = "" =>
                  dosxx /\ r.cuerpo # NoJson /\ peticion.data = r.cuerpo
            /\ peticion.excepcion # "" => peticion.data = Nulo
            /\ r.causa = "timeout" => peticion.excepcion = "Timeout"
            /\ r.causa = "transporte" => peticion.excepcion = "ConnectionError"
            /\ (r.causa = "respuesta" /\ ~dosxx) => peticion.excepcion = "HTTPError"
            /\ (dosxx /\ r.cuerpo = NoJson) => peticion.excepcion = "JSONDecodeError"

\* The key columns of a source table: (producto_id, fecha), or
\* (fecha, moneda_destino) for the rates; <<>> for any other table.
Clave(t) ==
    IF {"fecha", "moneda_destino"} \subseteq Range(t.cols) THEN <<"fecha", "moneda_destino">>
    ELSE IF {"producto_id", "fecha"} \subseteq Range(t.cols) THEN <<"producto_id", "fecha">>
    ELSE <<>>

\* Rows a and b of table t carry the same key.
MismaClave(t, a, b) == \A i \in DOMAIN Clave(t) : a[Clave(t)[i]] = b[Clave(t)[i]]

\* C9 as stated: in the output of limpiar_dataframe no two rows share the
\* key of the source table.
C9_ClaveUnica ==
    (Llamo("limpiar_dataframe") /\ Clave(llamada.res) # <<>>) =>
        \A i, j \in DOMAIN llamada.res.rows :
            i # j => ~MismaClave(llamada.res, llamada.res.rows[i], llamada.res.rows[j])

\* C9 as amended: limpiar_dataframe keeps one row for each distinct input
\* row that is not entirely missing; rows that are equal in every column are
\* reduced to one, rows that share the key and differ elsewhere are all kept.
C9_UnaPorFilaDistinta ==
    Llamo("limpiar_dataframe") =>
        Len(llamada.res.rows) =
            Cardinality({r \in Filas(llamada.arg) :
                            \E c \in Range(llamada.arg.cols) : ~isna(c, r[c])})

\* A cleaned table whose two rows share a key that is not missing and
\* differ in another column: both were kept.
C9_Testigo ==
    /\ Llamo("limpiar_dataframe")
    /\ Clave(llamada.res) # <<>>
    /\ Len(llamada.res.rows) = 2
    /\ \A i \in DOMAIN Clave(llamada.res) : llamada.res.rows[1][Clave(llamada.res)[i]] # "N/A"
    /\ MismaClave(llamada.res, llamada.res.rows[1], llamada.res.rows[2])
    /\ llamada.res.rows[1] # llamada.res.rows[2]

\* C10: the summary has the block of precio_usd (of precio_local) exactly
\* when the table has that column and at least one row.
C10_BloqueSiNoVacia ==
    Llamo("generar_resumen_estadistico") =>
        \A c \in {"precio_usd", "precio_local"} :
            c \in DOMAIN llamada.res <=>
                (c \in Range(llamada.arg.cols) /\ Len(llamada.arg.rows) >= 1)

\* The keys every summary carries.
ClavesFijas == {"total_registros", "total_columnas", "columnas", "fecha_procesamiento"}

\* Summary s of table t: the fixed keys with the counts, the column list
\* and a timestamp, and por_categoria exactly when t has the categoria column.
ResumenDe(s, t) ==
    /\ ClavesFijas \subseteq DOMAIN s
    /\ s["total_registros"] = Len(t.rows)
    /\ s["total_columnas"] = Len(t.cols)
    /\ s["columnas"] = t.cols
    /\ Len(s["fecha_procesamiento"]) = 19
    /\ "por_categoria" \in DOMAIN s <=> "categoria" \in Range(t.cols)

\* C11: the summary of generar_resumen_estadistico always has the keys
\* total_registros, total_columnas, columnas and fecha_procesamiento, and
\* has the key por_categoria if and only if the table has the categoria
\* column; without the column the key is absent.
C11_ClavesDelResumen ==
    /\ Llamo("generar_resumen_estadistico") => ResumenDe(llamada.res, llamada.arg)
    /\ resumen # Nulo => ResumenDe(resumen, df_consolidado)

\* A table without the categoria column was summarised: the summary has
\* the fixed keys and no por_categoria key.
C11_Testigo ==
    /\ Llamo("generar_resumen_estadistico")
    /\ Len(llamada.arg.rows) > 0
    /\ "categoria" \notin Range(llamada.arg.cols)
    /\ "por_categoria" \notin DOMAIN llamada.res
    /\ ClavesFijas \subseteq DOMAIN llamada.res

\* C12: validar_dataframe_basico(df, nombre) raises the ValueError that
\* carries nombre exactly when df is None or has no rows, returns True
\* otherwise, and leaves df as it was either way.
C12_ValidarVacio ==
    Llamo("validar_dataframe_basico") =>
        LET vacio == llamada.arg = Nulo \/ Len(llamada.arg.rows) = 0
        IN  /\ vacio => /\ ~llamada.res
                        /\ pc = "failed"
                        /\ error = "ValueError"
                        /\ llamada.mensaje = llamada.nombre \o " esta vacio"
            /\ ~vacio => llamada.res /\ pc = "done" /\ error = "" /\ llamada.mensaje = ""
            /\ df = llamada.arg

\* The table named Productos had columns and no rows, and the call raised.
C12_Testigo ==
    /\ Llamo("validar_dataframe_basico")
    /\ llamada.arg # Nulo
    /\ Len(llamada.arg.cols) > 0
    /\ Len(llamada.arg.rows) = 0
    /\ llamada.nombre = "Productos"
    /\ error = "ValueError"
    /\ llamada.mensaje = "Productos esta vacio"

\* The cleaned rates rows of the local currency.
TiposLocales ==
    {r \in Filas(limpiar_dataframe(datos.tipos_cambio)) : r["moneda_destino"] = moneda_local}

\* The fecha the cleaned product row p enters the join with: its own, or
\* today's when the product table has no fecha column.
FechaProducto(p) == IF "fecha" \in DOMAIN p THEN p["fecha"] ELSE strftime(hoy)

\* C13: when the cleaned rates have a row of moneda_local, a consolidated
\* row with tipo_cambio present carries the tipo_cambio of a cleaned rates
\* row of moneda_local and of the row's own fecha, and a product row whose
\* fecha has no such rates row is kept with tipo_cambio missing.
C13_TipoCambioDeLaFecha ==
    (Consolidado /\ TiposLocales # {}) =>
        /\ \A r \in Filas(df_consolidado) :
              Presente(r, "tipo_cambio") =>
                  \E x \in TiposLocales :
                      x["fecha"] = r["fecha"] /\ x["tipo_cambio"] = r["tipo_cambio"]
        /\ \A p \in Filas(limpiar_dataframe(datos.productos)) :
              (\A x \in TiposLocales : x["fecha"] # FechaProducto(p)) =>
                  \E r \in Filas(df_consolidado) :
                      /\ r["producto_id"] = p["producto_id"]
                      /\ r["fecha"] = FechaProducto(p)
                      /\ r["tipo_cambio"] = NaN

\* The rates hold a row of another currency and rows of the local currency
\* for today only; today's product row got the local rate, yesterday's was
\* kept without one.
C13_Testigo ==
    /\ Consolidado
    /\ TiposLocales # {}
    /\ \E x \in Filas(limpiar_dataframe(datos.tipos_cambio)) : x["moneda_destino"] # moneda_local
    /\ \E r \in Filas(df_consolidado) : r["fecha"] = Hoy /\ Presente(r, "tipo_cambio")
    /\ \E r \in Filas(df_consolidado) : r["fecha"] = Ayer /\ r["tipo_cambio"] = NaN

\* The non-key columns the product table and the supplemental table share.
ColumnasComunes ==
    (Range(datos.productos.cols) \cap Range(datos.adicionales.cols)) \ {"producto_id"}

\* C14: in the join with the supplemental table a non-key column found on
\* both sides keeps the product's values under its own name, and the
\* supplemental values come under the name with '_adicional' appended:
\* every consolidated row still carries a cleaned product row, and under
\* the suffixed name the value of a supplemental row of the same
\* producto_id, or nothing when there is none.
C14_SufijoAdicional ==
    Consolidado =>
        \A c \in ColumnasComunes :
            /\ c \in Range(df_consolidado.cols)
            /\ (c \o "_adicional") \in Range(df_consolidado.cols)
            /\ \A r \in Filas(df_consolidado) :
                  /\ \E p \in Filas(limpiar_dataframe(datos.productos)) :
                        \A k \in DOMAIN p : r[k] = p[k]
                  /\ \/ /\ r[c \o "_adicional"] = Faltante(c)
                        /\ \A a \in Filas(limpiar_dataframe(datos.adicionales)) :
                              a["producto_id"] # r["producto_id"]
                     \/ \E a \in Filas(limpiar_dataframe(datos.adicionales)) :
                           /\ a["producto_id"] = r["producto_id"]
                           /\ a[c] = r[c \o "_adicional"]

\* A product row of yesterday joined with a supplemental row of today:
\* fecha is still yesterday and fecha_adicional is today.
C14_Testigo ==
    /\ Consolidado
    /\ "fecha" \in ColumnasComunes
    /\ \E r \in Filas(df_consolidado) : r["fecha"] = Ayer /\ r["fecha_adicional"] = Hoy

\* Table t lacks the price column or the exchange-rate column.
SinPrecioOTipo(t) == "precio_usd" \notin Range(t.cols) \/ "tipo_cambio" \notin Range(t.cols)

\* C15: calcular_precio_local on a table that lacks precio_usd or
\* tipo_cambio returns the table with the same columns and the same rows,
\* neither precio_local nor moneda_local added, and raises nothing; so a
\* consolidated table without precio_usd has neither derived column.
C15_SinColumnasSinCalculo ==
    /\ (Llamo("calcular_precio_local") /\ SinPrecioOTipo(llamada.arg)) =>
          /\ llamada.res = llamada.arg
          /\ error = ""
          /\ pc = "done"
    /\ (Consolidado /\ "precio_usd" \notin Range(datos.productos.cols)) =>
          /\ "precio_local" \notin Range(df_consolidado.cols)
          /\ "moneda_local" \notin Range(df_consolidado.cols)
          /\ Len(df_consolidado.rows) >= Len(limpiar_dataframe(datos.productos).rows)

\* calcular_precio_local was called on a table with rows and precio_usd
\* and without tipo_cambio, and returned it.
C15_Testigo ==
    /\ Llamo("calcular_precio_local")
    /\ "precio_usd" \in Range(llamada.arg.cols)
    /\ "tipo_cambio" \notin Range(llamada.arg.cols)
    /\ Len(llamada.arg.rows) > 0
    /\ llamada.res = llamada.arg

\* The columns of the consolidated table after the metadata step, in the
\* order the steps made them: the product's (fecha added when it had
\* none), tipo_cambio, the supplemental ones (suffixed when the name is
\* taken), the derived ones when there is a price, and the metadata.
ColumnasAntes ==
    LET prod == ConColumna(datos.productos.cols, "fecha")
        adic == SelectSeq(datos.adicionales.cols, LAMBDA c : c # "producto_id")
    IN  prod \o <<"tipo_cambio">>
        \o [i \in DOMAIN adic |->
               IF adic[i] \in Range(prod) \cup {"tipo_cambio"}
               THEN adic[i] \o "_adicional" ELSE adic[i]]
        \o (IF "precio_usd" \in Range(prod) THEN <<"precio_local", "moneda_local">> ELSE <<>>)
        \o <<"fecha_procesamiento", "pipeline_version">>

\* C16: the columns of the table consolidar_datos returns are a
\* permutation of the columns present after the metadata step: first the
\* columns of the preferred list that exist, in the order of the list, then
\* every other column in the order it had.
C16_OrdenDeColumnas ==
    Consolidado =>
        /\ df_consolidado.cols =
              SelectSeq(columnas_principales, LAMBDA c : c \in Range(ColumnasAntes))
              \o SelectSeq(ColumnasAntes, LAMBDA c : c \notin Range(columnas_principales))
        /\ Len(df_consolidado.cols) = Len(ColumnasAntes)
        /\ Range(df_consolidado.cols) = Range(ColumnasAntes)
        /\ Cardinality(Range(df_consolidado.cols)) = Len(df_consolidado.cols)
        /\ \A r \in Filas(df_consolidado) : DOMAIN r = Range(df_consolidado.cols)

\* A consolidated table without precio_usd: the preferred columns that are
\* missing are skipped, categoria has moved ahead of tipo_cambio, and the
\* supplemental columns and pipeline_version come last.
C16_Testigo ==
    /\ Consolidado
    /\ df_consolidado.cols =
          <<"producto_id", "nombre", "categoria", "tipo_cambio", "fecha",
            "fecha_procesamiento", "rating", "volumen", "fecha_adicional",
            "pipeline_version">>

\* The extractors entered so far.
ExtractoresCorridos == Cardinality(Range(traza) \cap Extractores)

\* The name extractor e gives the entity x of its snapshot.
NombreEntidad(e, x) ==
    CASE e = "productos" -> "CURR_" \o x[1]
      [] e = "tipos_cambio" -> x[1]
      [] e = "adicionales" -> "CRYPTO_" \o x[1]

\* The entity a row of the table of extractor e stands for.
EntidadFila(e, r) == IF e = "tipos_cambio" THEN r["moneda_destino"] ELSE r["producto_id"]

\* C17: an extractor fetches exactly once whatever dias_historico is, so a
\* run has fetched once per extractor entered, three times when all three
\* returned and never more; and the rows of a source, for all its dates,
\* are of entities of the one snapshot that fetch returned.
C17_UnaPeticionPorExtractor ==
    /\ n_get = ExtractoresCorridos
    /\ n_get <= 3
    /\ pc \in {"consolidar", "resumen", "done"} => n_get = 3
    /\ (PeticionServida /\ datos[EtapaPeticion] # Nulo) =>
          LET e == EtapaPeticion
              nombres == {NombreEntidad(e, x) : x \in Range(EntidadesDe(e, peticion.data))}
          IN  \A f \in {r["fecha"] : r \in Filas(datos[e])} :
                  {EntidadFila(e, r) : r \in {q \in Filas(datos[e]) : q["fecha"] = f}}
                      \subseteq nombres

\* All three extractors returned tables of two days, three fetches in all.
C17_Testigo ==
    /\ pc = "consolidar"
    /\ dias_historico = 2
    /\ n_get = 3
    /\ Cardinality({r["fecha"] : r \in Filas(datos.productos)}) = 2

\* extraer_api_datos_adicionales made the last request and returned a table.
AdicionalesExtraidos ==
    /\ PeticionServida
    /\ EtapaPeticion = "adicionales"
    /\ datos.adicionales # Nulo

\* C18: extraer_api_datos_adicionales uses the first 10 entities of the
\* snapshot only, in the order of the snapshot and the same for every date:
\* of a snapshot of k entities and n days it returns n * min(k, 10) rows,
\* none of an entity past the tenth.
C18_PrimerosDiez ==
    AdicionalesExtraidos =>
        LET rates == peticion.data["data"]["rates"]
            m == IF Len(rates) < 10 THEN Len(rates) ELSE 10
            t == datos.adicionales
        IN  /\ Len(t.rows) = dias_historico * m
            /\ \A j \in DOMAIN t.rows :
                  t.rows[j]["producto_id"] = "CRYPTO_" \o rates[((j - 1) % m) + 1][1]
            /\ \A j \in DOMAIN t.rows : \A i \in 11..Len(rates) :
                  t.rows[j]["producto_id"] # "CRYPTO_" \o rates[i][1]
            /\ \A j \in DOMAIN t.rows :
                  t.rows[j]["fecha"] = t.rows[(((j - 1) \div m) * m) + 1]["fecha"]

\* A snapshot of more than ten entities extracted for two days: twenty rows.
C18_Testigo ==
    /\ AdicionalesExtraidos
    /\ Len(peticion.data["data"]["rates"]) > 10
    /\ dias_historico = 2
    /\ Len(datos.adicionales.rows) = 20

\* Row r of a table with columns cols, its missing values filled: 0 in a
\* numeric column, 'N/A' in any other.
Llena(r, cols) ==
    [c \in Range(cols) |->
        IF isna(c, r[c]) THEN (IF c \in ColumnasNumericas THEN 0 ELSE "N/A") ELSE r[c]]

\* The rows of table t that survive the first two steps: the first of each
\* group of equal rows, unless all its values are missing.
Sobreviven(t) ==
    {i \in DOMAIN t.rows :
        /\ \A j \in 1..(i - 1) : t.rows[j] # t.rows[i]
        /\ \E c \in Range(t.cols) : ~isna(c, t.rows[i][c])}

\* C19: limpiar_dataframe removes the exact duplicates, then the rows with
\* all values missing, then fills what is still missing, with 0 in the
\* numeric columns and 'N/A' in the others: the output has no missing value
\* and its rows are, in order, the surviving input rows with their missing
\* values filled.
C19_PasosDeLimpieza ==
    Llamo("limpiar_dataframe") =>
        LET a == llamada.arg
            s == llamada.res
        IN  /\ s.cols = a.cols
            /\ \A r \in Filas(s) : \A c \in Range(s.cols) : ~isna(c, r[c])
            /\ Len(s.rows) = Cardinality(Sobreviven(a))
            /\ \A j \in DOMAIN s.rows :
                  LET i == CHOOSE i \in Sobreviven(a) :
                               Cardinality({k \in Sobreviven(a) : k <= i}) = j
                  IN  s.rows[j] = Llena(a.rows[i], a.cols)

\* Two input rows that differ in a missing value only: they were not
\* duplicates when the duplicates were removed, and the filling made them
\* equal.
C19_Testigo ==
    /\ Llamo("limpiar_dataframe")
    /\ Len(llamada.arg.rows) = 2
    /\ llamada.arg.rows[1] # llamada.arg.rows[2]
    /\ Len(llamada.res.rows) = 2
    /\ llamada.res.rows[1] = llamada.res.rows[2]

\* C20: no core operation modifies a table its caller passed in: after a
\* call of limpiar_dataframe, calcular_precio_local or
\* generar_resumen_estadistico the caller's table has the rows and columns
\* it had before, and so have the three source tables after consolidar_datos.
C20_SinModificarEntrada ==
    [][/\ (llamada' # llamada /\ llamada'.fn \in {"limpiar_dataframe",
                                                  "calcular_precio_local",
                                                  "generar_resumen_estadistico"})
             => df' = df
       /\ (pc = "consolidar" /\ traza' # traza) => datos' = datos
      ]_vars

\* C21: whenever a run of tarea_cargar_staging completes, however the
\* TRUNCATE and append steps of the runs interleave, staging_consolidado
\* holds exactly the rows of that run's consolidated table and no row of
\* any other run.
C21_StagingDeLaCorrida ==
    [][\A c \in Corridas :
          (cargas[c].pc # "done" /\ cargas'[c].pc = "done") =>
              staging' = cargas[c].df.rows
      ]_vars

\* C22: tarea_cargar_staging never truncates the staging table when the
\* table it received is absent or has no rows: it raises before the
\* TRUNCATE and the staging table keeps its contents.
C22_SinDatosNoTrunca ==
    [][\A c \in Corridas :
          ((cargas[c].df = Nulo \/ Len(cargas[c].df.rows) = 0) /\ cargas'[c] # cargas[c]) =>
              /\ staging' = staging
              /\ cargas[c].pc = "inicio"
              /\ cargas'[c].pc = "failed"
              /\ cargas'[c].error = "ValueError"
      ]_vars

\* A run that received a table without rows has raised, and the staging
\* table still holds the row of the earlier load.
C22_Testigo ==
    /\ pc = "carga"
    /\ \E c \in Corridas :
          /\ cargas[c].df # Nulo
          /\ Len(cargas[c].df.rows) = 0
          /\ cargas[c].pc = "failed"
          /\ cargas[c].error = "ValueError"
    /\ \A c \in Corridas : cargas[c].pc \in {"inicio", "failed"}
    /\ staging = <<FilaAnterior>>

\* The fecha values of the table extractor e returned.
FechasDe(e) == {r["fecha"] : r \in Filas(datos[e])}

\* The fecha of the default rate row consolidar_datos builds when it runs
\* on the current day.
FechaPorDefecto ==
    tipo_cambio_local([cols |-> <<"fecha", "moneda_origen", "moneda_destino", "tipo_cambio">>,
                       rows |-> <<>>], moneda_local, hoy).rows[1]["fecha"]

\* C23: within one run the three tables of extraer_todas_las_fuentes carry
\* the same set of fecha values, and the fecha of the default rate row of
\* consolidar_datos is one of them, also when the date changes between the
\* calls.
C23_MismasFechas ==
    (pc \in {"consolidar", "resumen", "done"} /\ \A e \in Extractores : datos[e] # Nulo) =>
        /\ FechasDe("productos") = FechasDe("tipos_cambio")
        /\ FechasDe("tipos_cambio") = FechasDe("adicionales")
        /\ pc = "consolidar" => FechaPorDefecto \in FechasDe("productos")

====
